---- MODULE Spec2Model ----
(***************************************************************************)
(* tokencount: N worker processes each scan one contiguous row range of    *)
(* the union of the data files of a directory, in OFFSET/LIMIT batches,    *)
(* count tokens of one field, and main() sums and ranks the results.       *)
(*                                                                         *)
(* A file path is the sequence of its dot-separated parts, the extensions  *)
(* carrying their dot (<<"part", ".JSONL", ".gz">>).  A field value is a    *)
(* Python value [t, n]: a str of n characters, an int n, or None.          *)
(* The tokenizer (external) yields one token per character.                *)
(***************************************************************************)
EXTENDS Integers, Sequences, FiniteSets, TLC

\* ---------------------------------------------------------------- bounds
MaxFiles == 3        \* longest directory listing
MaxWorkers == 3      \* largest --workers
MaxBatch == 2        \* largest --batch-size
MaxTruncate == 2     \* most rows an outside writer removes from a file (SpecShrink)

\* ---------------------------------------------------------------- values
PyStr(n) == [t |-> "str", n |-> n]
PyInt(n) == [t |-> "int", n |-> n]
PyNone == [t |-> "none", n |-> 0]
Row(text, id) == [text |-> text, id |-> id]

\* The files the directory may hold, and the rows DuckDB reads from each.
Names == { <<"data1", ".parquet">>, <<"part", ".JSONL", ".gz">>, <<"empty", ".csv">>,
           <<"notes", ".txt", ".gz">>, <<"readme", ".md">> }

Contents(name) ==
  CASE name = <<"data1", ".parquet">> ->
         << Row(PyStr(2), PyInt(5)), Row(PyStr(0), PyInt(7)), Row(PyNone, PyInt(0)) >>
    [] name = <<"part", ".JSONL", ".gz">> ->
         << Row(PyStr(1), PyNone), Row(PyStr(1), PyInt(5)) >>
    [] OTHER -> << >>

Fields == {"text", "id"}

Min(a, b) == IF a < b THEN a ELSE b

\* ------------------------------------------------------ pathlib / str
lower(s) ==
  CASE s = ".JSONL" -> ".jsonl"
    [] s = ".CSV" -> ".csv"
    [] s = ".GZ" -> ".gz"
    [] OTHER -> s

suffix(path) == IF Len(path) > 1 THEN path[Len(path)] ELSE ""

stem(path) == IF Len(path) > 1 THEN SubSeq(path, 1, Len(path) - 1) ELSE path

\* -------------------------------------------------- tokencount.py 13-30
\* Python truthiness of a fetched value (`not text`, `if row[0]:`).
truthy(v) == v.t # "none" /\ v.n # 0

count_tokens_in_text(text) ==
  IF ~truthy(text) \/ text.t # "str" THEN 0 ELSE text.n

RECURSIVE process_chunk(_)
process_chunk(chunk_data) ==
  IF chunk_data = << >> THEN [total_tokens |-> 0, processed_items |-> 0]
  ELSE LET n == Len(chunk_data)
           rest == process_chunk(SubSeq(chunk_data, 1, n - 1))
           row == chunk_data[n]
       IN  IF truthy(row)
           THEN [total_tokens |-> rest.total_tokens + count_tokens_in_text(row),
                 processed_items |-> rest.processed_items + 1]
           ELSE rest

\* -------------------------------------------------- tokencount.py 56-86
\* The reader a file gets, or "skip" (the two `continue` branches).
source(file_path) ==
  LET file_ext == lower(suffix(file_path))
      base_ext == lower(suffix(stem(file_path)))
  IN  IF file_ext = ".parquet" THEN "parquet_scan"
      ELSE IF file_ext \in {".csv", ".tsv"} THEN "read_csv"
      ELSE IF file_ext \in {".json", ".jsonl"} THEN "read_json"
      ELSE IF file_ext \in {".gz", ".bz2", ".zip", ".xz"}
           THEN IF base_ext \in {".json", ".jsonl"} THEN "read_json"
                ELSE IF base_ext \in {".csv", ".tsv"} THEN "read_csv"
                ELSE "skip"
      ELSE "skip"

UnionAll == [tok |-> "UNION ALL", file |-> << >>]
Select(file_path) == [tok |-> "SELECT", file |-> file_path]

\* The text between "SELECT * FROM (" and ")", as its sequence of SQL items:
\* the loop body for the files i, i+1, ... of the listing (1-based).
RECURSIVE query_from(_, _)
query_from(listing, i) ==
  IF i > Len(listing) THEN << >>
  ELSE IF source(listing[i]) = "skip" THEN query_from(listing, i + 1)
  ELSE << Select(listing[i]) >>
       \o (IF i < Len(listing) THEN << UnionAll >> ELSE << >>)
       \o query_from(listing, i + 1)

all_data_query(listing) == query_from(listing, 1)

\* ------------------------------------------------ DuckDB (con.execute)
\* The parser accepts SELECT (UNION ALL SELECT)*, and nothing else.
sql_valid(query) ==
  /\ Len(query) > 0
  /\ Len(query) % 2 = 1
  /\ \A i \in 1..Len(query) :
       query[i].tok = (IF i % 2 = 1 THEN "SELECT" ELSE "UNION ALL")

RECURSIVE project(_, _)
project(rows, fld) ==
  IF rows = << >> THEN << >>
  ELSE << IF fld = "text" THEN Head(rows).text ELSE Head(rows).id >>
       \o project(Tail(rows), fld)

\* SELECT fld FROM (query): the rows of the files of the query, in order.
RECURSIVE view(_, _, _)
view(query, d, fld) ==
  IF query = << >> THEN << >>
  ELSE (IF Head(query).tok = "SELECT" THEN project(d[Head(query).file], fld) ELSE << >>)
       \o view(Tail(query), d, fld)

\* ... LIMIT lim OFFSET off
fetch(rows, lim, off) == SubSeq(rows, off + 1, Min(off + lim, Len(rows)))

\* -------------------------------------------------- tokencount.py 95-102
\* Mutant: the chunk size rounded up instead of down.
chunk_size_ceil(total_rows, total_chunks) ==
  (total_rows + total_chunks - 1) \div total_chunks

chunk_size(total_rows, total_chunks) == total_rows \div total_chunks

start_row(chunk_index, total_chunks, total_rows) ==
  chunk_index * chunk_size(total_rows, total_chunks)

\* Mutant: the last chunk treated like the others, the remainder dropped.
end_row_no_remainder(chunk_index, total_chunks, total_rows) ==
  (chunk_index + 1) * (total_rows \div total_chunks)

end_row(chunk_index, total_chunks, total_rows) ==
  IF chunk_index < total_chunks - 1
  THEN start_row(chunk_index, total_chunks, total_rows) + chunk_size(total_rows, total_chunks)
  ELSE total_rows

\* Mutant: every request asks for a whole batch.
limit_whole_batch(bsize, endr, off) == bsize

limit(bsize, endr, off) == Min(bsize, endr - off)

\* ----------------------------------------------------------------- state
VARIABLES
  files,            \* glob('<dataset_path>/*'): the directory listing
  disk,             \* the rows each file holds now
  field,            \* FIELD
  workers,          \* --workers
  batch_size,       \* --batch-size
  pc,               \* per chunk: "start", "scan", "done"
  partition,        \* per chunk: [start_row, end_row]
  offset,           \* per chunk: the loop variable of the batch loop
  total_tokens,     \* per chunk: the worker's total_tokens
  processed_items,  \* per chunk: the worker's processed_items
  err,              \* per chunk: "none", or what raised into the except clause
  requests,         \* per chunk: the LIMIT/OFFSET queries executed, with the rows each returned
  batches,          \* per chunk: the process_chunk calls that returned
  mainpc,           \* main: "map" until the pool has joined, then "done"
  main_total_tokens,
  total_processed,
  chunk_results,
  average           \* the printed average, in hundredths

vars == << files, disk, field, workers, batch_size, pc, partition, offset,
           total_tokens, processed_items, err, requests, batches,
           mainpc, main_total_tokens, total_processed, chunk_results, average >>

inputs == << files, field, workers, batch_size >>
mainvars == << mainpc, main_total_tokens, total_processed, chunk_results, average >>

Chunks == 0..(workers - 1)

Listings ==
  { l \in UNION { [1..k -> Names] : k \in 0..MaxFiles } :
      \A i, j \in DOMAIN l : i # j => l[i] # l[j] }

Init ==
  /\ files \in Listings
  /\ disk = [n \in Names |-> Contents(n)]
  /\ field \in Fields
  /\ workers \in 1..MaxWorkers
  /\ batch_size \in 1..MaxBatch
  /\ pc = [c \in Chunks |-> "start"]
  /\ partition = [c \in Chunks |-> [start_row |-> 0, end_row |-> 0]]
  /\ offset = [c \in Chunks |-> 0]
  /\ total_tokens = [c \in Chunks |-> 0]
  /\ processed_items = [c \in Chunks |-> 0]
  /\ err = [c \in Chunks |-> "none"]
  /\ requests = [c \in Chunks |-> << >>]
  /\ batches = [c \in Chunks |-> << >>]
  /\ mainpc = "map"
  /\ main_total_tokens = 0
  /\ total_processed = 0
  /\ chunk_results = << >>
  /\ average = 0

\* ------------------------------------------------- tokencount.py 162-185
\* list.sort(key=tokens, reverse=True): descending and stable, so an entry
\* goes behind every earlier entry whose token count is not smaller.
\* Mutant: a sort that is descending but not stable (ties come out reversed).
RECURSIVE sorted_by_tokens_unstable(_)
sorted_by_tokens_unstable(results) ==
  IF results = << >> THEN << >>
  ELSE LET n == Len(results)
           front == sorted_by_tokens_unstable(SubSeq(results, 1, n - 1))
           x == results[n]
           k == Cardinality({ i \in 1..Len(front) : front[i].tokens > x.tokens })
       IN  SubSeq(front, 1, k) \o << x >> \o SubSeq(front, k + 1, Len(front))

RECURSIVE sorted_by_tokens(_)
sorted_by_tokens(results) ==
  IF results = << >> THEN << >>
  ELSE LET n == Len(results)
           front == sorted_by_tokens(SubSeq(results, 1, n - 1))
           x == results[n]
           k == Cardinality({ i \in 1..Len(front) : front[i].tokens >= x.tokens })
       IN  SubSeq(front, 1, k) \o << x >> \o SubSeq(front, k + 1, Len(front))

RECURSIVE sum_field(_, _)
sum_field(results, key) ==
  IF results = << >> THEN 0
  ELSE (IF key = "tokens" THEN Head(results).tokens ELSE Head(results).items_processed)
       + sum_field(Tail(results), key)

\* f"{num / den:.2f}" in hundredths: the nearest, a tie to the even one
\* (the quotients with a tie here, k/8, are exact doubles).
format_2f(num, den) ==
  LET q == (100 * num) \div den
      r == (100 * num) % den
  IN  IF 2 * r < den THEN q
      ELSE IF 2 * r > den THEN q + 1
      ELSE IF q % 2 = 0 THEN q ELSE q + 1

\* --------------------------------------------------------------- actions
\* Lines 40-98 and the entry of the batch loop: glob, build the query,
\* count the rows, compute the chunk boundaries.
Start(c) ==
  /\ pc[c] = "start"
  /\ LET query == all_data_query(files)
         total_rows == Len(view(query, disk, field))
         s == start_row(c, workers, total_rows)
         e == end_row(c, workers, total_rows)
     IN  IF files = << >>
         THEN /\ pc' = [pc EXCEPT ![c] = "done"]
              /\ UNCHANGED << partition, offset, err >>
         ELSE IF ~sql_valid(query)
         THEN /\ pc' = [pc EXCEPT ![c] = "done"]
              /\ err' = [err EXCEPT ![c] = "query"]
              /\ UNCHANGED << partition, offset >>
         ELSE IF total_rows = 0
         THEN /\ pc' = [pc EXCEPT ![c] = "done"]
              /\ UNCHANGED << partition, offset, err >>
         ELSE /\ partition' = [partition EXCEPT ![c] = [start_row |-> s, end_row |-> e]]
              /\ offset' = [offset EXCEPT ![c] = s]
              /\ pc' = [pc EXCEPT ![c] = IF s < e THEN "scan" ELSE "done"]
              /\ UNCHANGED err
  /\ UNCHANGED << inputs, disk, total_tokens, processed_items, requests, batches, mainvars >>

\* Mutant: the loop left as soon as a request returns fewer rows than its limit.
BatchStopShort(c) ==
  /\ pc[c] = "scan"
  /\ LET lim == limit(batch_size, partition[c].end_row, offset[c])
         result_set == fetch(view(all_data_query(files), disk, field), lim, offset[c])
         counted == process_chunk(result_set)
     IN  /\ requests' = [requests EXCEPT ![c] =
                           Append(@, [offset |-> offset[c], limit |-> lim,
                                      returned |-> Len(result_set)])]
         /\ batches' = [batches EXCEPT ![c] =
                          Append(@, [rows |-> result_set,
                                     tokens |-> counted.total_tokens,
                                     items |-> counted.processed_items])]
         /\ total_tokens' = [total_tokens EXCEPT ![c] = @ + counted.total_tokens]
         /\ processed_items' = [processed_items EXCEPT ![c] = @ + counted.processed_items]
         /\ offset' = [offset EXCEPT ![c] = @ + Len(result_set)]
         /\ pc' = [pc EXCEPT ![c] =
                     IF Len(result_set) = lim /\ offset[c] + lim < partition[c].end_row
                     THEN "scan" ELSE "done"]
  /\ UNCHANGED << inputs, disk, partition, err, mainvars >>

\* Lines 101-111: one iteration of `for offset in range(start_row, end_row, batch_size)`.
Batch(c) ==
  /\ pc[c] = "scan"
  /\ LET lim == limit(batch_size, partition[c].end_row, offset[c])
         result_set == fetch(view(all_data_query(files), disk, field), lim, offset[c])
         counted == process_chunk(result_set)
     IN  /\ requests' = [requests EXCEPT ![c] =
                           Append(@, [offset |-> offset[c], limit |-> lim,
                                      returned |-> Len(result_set)])]
         /\ batches' = [batches EXCEPT ![c] =
                          Append(@, [rows |-> result_set,
                                     tokens |-> counted.total_tokens,
                                     items |-> counted.processed_items])]
         /\ total_tokens' = [total_tokens EXCEPT ![c] = @ + counted.total_tokens]
         /\ processed_items' = [processed_items EXCEPT ![c] = @ + counted.processed_items]
  /\ offset' = [offset EXCEPT ![c] = @ + batch_size]
  /\ pc' = [pc EXCEPT ![c] =
              IF offset[c] + batch_size < partition[c].end_row THEN "scan" ELSE "done"]
  /\ UNCHANGED << inputs, disk, partition, err, mainvars >>

\* Mutant: the except clause returning zero counts instead of the partial ones.
FailBatchReset(c) ==
  /\ pc[c] = "scan"
  /\ \E what \in {"read", "tokenize"} : err' = [err EXCEPT ![c] = what]
  /\ total_tokens' = [total_tokens EXCEPT ![c] = 0]
  /\ processed_items' = [processed_items EXCEPT ![c] = 0]
  /\ pc' = [pc EXCEPT ![c] = "done"]
  /\ UNCHANGED << inputs, disk, partition, offset, requests, batches, mainvars >>

\* Lines 108-109 raising, lines 113-116: the read of a batch fails, or the
\* batch is read and encoding one of its rows fails; the except clause
\* reports it and the worker returns what it has accumulated.
FailBatch(c) ==
  /\ pc[c] = "scan"
  /\ \E what \in {"read", "tokenize"} :
       LET lim == limit(batch_size, partition[c].end_row, offset[c])
           result_set == fetch(view(all_data_query(files), disk, field), lim, offset[c])
       IN  /\ err' = [err EXCEPT ![c] = what]
           /\ requests' = [requests EXCEPT ![c] =
                             IF what = "read" THEN @
                             ELSE Append(@, [offset |-> offset[c], limit |-> lim,
                                             returned |-> Len(result_set)])]
  /\ pc' = [pc EXCEPT ![c] = "done"]
  /\ UNCHANGED << inputs, disk, partition, offset, total_tokens, processed_items,
                  batches, mainvars >>

\* Lines 159-185: the pool has joined; executor.map yields the results in
\* chunk order; sum, sort, print.
Aggregate ==
  /\ mainpc = "map"
  /\ \A c \in Chunks : pc[c] = "done"
  /\ LET results == [i \in 1..workers |->
                       [chunk |-> i, tokens |-> total_tokens[i - 1],
                        items_processed |-> processed_items[i - 1]]]
         tokens == sum_field(results, "tokens")
         processed == sum_field(results, "items_processed")
     IN  /\ main_total_tokens' = tokens
         /\ total_processed' = processed
         /\ chunk_results' = sorted_by_tokens(results)
         /\ average' = IF processed > 0 THEN format_2f(tokens, processed) ELSE 0
  /\ mainpc' = "done"
  /\ UNCHANGED << inputs, disk, pc, partition, offset, total_tokens, processed_items,
                  err, requests, batches >>

\* Another process rewrites one data file with fewer rows while the run is
\* on (once in a run).
Truncate ==
  /\ mainpc = "map"
  /\ disk = [n \in Names |-> Contents(n)]
  /\ \E i \in DOMAIN files : \E k \in 1..MaxTruncate :
       /\ k <= Len(disk[files[i]])
       /\ disk' = [disk EXCEPT ![files[i]] = SubSeq(@, 1, Len(@) - k)]
  /\ UNCHANGED << inputs, pc, partition, offset, total_tokens, processed_items,
                  err, requests, batches, mainvars >>

Next ==
  \/ \E c \in Chunks : Start(c)
  \/ \E c \in Chunks : Batch(c)
  \/ \E c \in Chunks : FailBatch(c)
  \/ Aggregate

Spec == Init /\ [][Next]_vars

\* The same run, reading the text field, over a directory that is written
\* to meanwhile; no read or tokenize failure is injected.
InitShrink == Init /\ field = "text"

NextShrink ==
  \/ \E c \in Chunks : Start(c)
  \/ \E c \in Chunks : Batch(c)
  \/ Aggregate
  \/ Truncate

SpecShrink == InitShrink /\ [][NextShrink]_vars

\* ================================================================ claims
Query == all_data_query(files)
Corpus == view(Query, disk, field)
TotalRows == Len(Corpus)
Size(i) == end_row(i, workers, TotalRows) - start_row(i, workers, TotalRows)
Counts(c) == [total_tokens |-> total_tokens[c], processed_items |-> processed_items[c]]
RowsOf(from, to) == SubSeq(Corpus, from + 1, to)

RECURSIVE SumSizes(_)
SumSizes(i) == IF i < 0 THEN 0 ELSE Size(i) + SumSizes(i - 1)

\* C1: for the row count R of the corpus and the worker count N, the N row
\* ranges [start_row, end_row) of chunks 0..N-1 are ordered by index,
\* pairwise disjoint and contiguous, start at 0, end at R, and their sizes
\* sum to R; when R = 0 each is empty.  A worker that computed its range
\* holds exactly that range.
C1_PartitionsTile ==
  LET R == TotalRows
      N == workers
      s(i) == start_row(i, N, R)
      e(i) == end_row(i, N, R)
  IN  /\ s(0) = 0
      /\ e(N - 1) = R
      /\ \A i \in 0..(N - 1) : s(i) <= e(i)
      /\ \A i \in 0..(N - 2) : e(i) = s(i + 1)
      /\ \A i, j \in 0..(N - 1) : i < j => e(i) <= s(j)
      /\ SumSizes(N - 1) = R
      /\ R = 0 => \A i \in 0..(N - 1) : s(i) = e(i)
      /\ \A c \in Chunks :
           pc[c] = "scan" => partition[c] = [start_row |-> s(c), end_row |-> e(c)]

C1_Witness ==
  /\ workers = 3
  /\ TotalRows = 5
  /\ pc[2] = "scan"
  /\ partition[2] = [start_row |-> 2, end_row |-> 5]
  /\ pc[0] = "done" /\ partition[0] = [start_row |-> 0, end_row |-> 1]

\* C8: the last partition's size minus the first partition's size is in
\* 0..N-1, and every partition but the last has exactly R div N rows.
C8_LastPartitionSkew ==
  LET R == TotalRows
      N == workers
  IN  /\ (Size(N - 1) - Size(0)) \in 0..(N - 1)
      /\ \A i \in 0..(N - 2) : Size(i) = R \div N

C8_Witness ==
  /\ workers = 3
  /\ Size(workers - 1) - Size(0) = workers - 1
  /\ \A c \in Chunks : pc[c] = "done" /\ err[c] = "none"
  /\ Len(requests[2]) > Len(requests[0])

\* C9: the OFFSET/LIMIT requests of one partition have strictly increasing
\* offsets, each has 1 <= limit <= batch_size and offset + limit <= end_row,
\* and they tile [start_row, end_row): the first starts at start_row, each
\* next one starts where the one before ended, and a worker that ran its
\* loop to the end has reached end_row.
C9_BatchesTilePartition ==
  \A c \in Chunks :
    LET rq == requests[c]
        p == partition[c]
    IN  /\ \A i \in 1..Len(rq) :
             /\ 1 <= rq[i].limit
             /\ rq[i].limit <= batch_size
             /\ rq[i].offset + rq[i].limit <= p.end_row
             /\ i = 1 => rq[i].offset = p.start_row
             /\ i > 1 => /\ rq[i].offset > rq[i - 1].offset
                         /\ rq[i].offset = rq[i - 1].offset + rq[i - 1].limit
        /\ (pc[c] = "done" /\ err[c] = "none") =>
             IF rq = << >> THEN p.start_row = p.end_row
             ELSE rq[Len(rq)].offset + rq[Len(rq)].limit = p.end_row

C9_Witness ==
  \E c \in Chunks :
    /\ pc[c] = "done" /\ err[c] = "none"
    /\ Len(requests[c]) >= 2
    /\ requests[c][Len(requests[c])].limit < batch_size

\* C5: a worker whose batch failed (read or tokenize) returns exactly the
\* counts of the batches before the failing one, a worker without a failure
\* returns the counts of its whole partition whatever happened to the
\* others, a worker that failed has returned (nothing is raised into main),
\* and the summary carries the sum of what the workers returned.
C5_FailureIsolated ==
  /\ \A c \in Chunks :
       (pc[c] = "done" /\ sql_valid(Query)) =>
         /\ err[c] \in {"read", "tokenize"} =>
              Counts(c) = process_chunk(RowsOf(partition[c].start_row, offset[c]))
         /\ err[c] = "none" =>
              Counts(c) = process_chunk(RowsOf(partition[c].start_row, partition[c].end_row))
  /\ \A c \in Chunks : err[c] # "none" => pc[c] = "done"
  /\ mainpc = "done" =>
       /\ main_total_tokens =
            sum_field([i \in 1..workers |-> [tokens |-> total_tokens[i - 1],
                                             items_processed |-> 0]], "tokens")
       /\ total_processed =
            sum_field([i \in 1..workers |-> [tokens |-> 0,
                                             items_processed |-> processed_items[i - 1]]],
                      "items_processed")

C5_Witness ==
  /\ mainpc = "done"
  /\ \E c, d \in Chunks :
       /\ err[c] \in {"read", "tokenize"}
       /\ total_tokens[c] > 0
       /\ offset[c] > partition[c].start_row
       /\ offset[c] < partition[c].end_row
       /\ err[d] = "none"
       /\ total_tokens[d] > 0

\* C7: after aggregation the per-partition results are those of the
\* workers, sorted by token count descending, and results with equal token
\* counts stand in ascending order of their partition index.
C7_SortedDescStable ==
  mainpc = "done" =>
    /\ Len(chunk_results) = workers
    /\ \A c \in Chunks : \E i \in 1..workers :
         chunk_results[i] = [chunk |-> c + 1, tokens |-> total_tokens[c],
                             items_processed |-> processed_items[c]]
    /\ \A i, j \in 1..workers :
         i < j =>
           \/ chunk_results[i].tokens > chunk_results[j].tokens
           \/ /\ chunk_results[i].tokens = chunk_results[j].tokens
              /\ chunk_results[i].chunk < chunk_results[j].chunk

C7_Witness ==
  /\ mainpc = "done"
  /\ \E i, j \in 1..Len(chunk_results) :
       /\ i < j
       /\ chunk_results[i].tokens = chunk_results[j].tokens
       /\ chunk_results[i].tokens > 0
  /\ \E i, j \in 1..Len(chunk_results) :
       /\ i < j
       /\ chunk_results[i].chunk > chunk_results[j].chunk

\* ---------------------------------------------------------------- C10
Ceil(a, b) == (a + b - 1) \div b

\* C10 as stated: a worker that left its loop without a failure has its
\* cursor at the end row or had its last request return fewer rows than
\* asked, and a request that returned fewer rows than its limit is the last
\* request of its partition.
C10_StopsOnShortRead ==
  \A c \in Chunks :
    LET rq == requests[c]
    IN  /\ \A i \in 1..Len(rq) : rq[i].returned < rq[i].limit => i = Len(rq)
        /\ (pc[c] = "done" /\ err[c] = "none" /\ rq # << >>) =>
             \/ offset[c] >= partition[c].end_row
             \/ rq[Len(rq)].returned < rq[Len(rq)].limit

\* C10 amended: the scan ends only when the cursor reaches the end row.  A
\* worker in its loop has its cursor below end_row, and a worker that left
\* the loop without a failure has issued one request per batch_size step of
\* [start_row, end_row), ceil((end_row - start_row) / batch_size) in all,
\* however many rows each returned.
C10_ScanRunsToEndRow ==
  \A c \in Chunks :
    LET p == partition[c]
    IN  /\ pc[c] = "scan" =>
             /\ offset[c] < p.end_row
             /\ offset[c] = p.start_row + Len(requests[c]) * batch_size
        /\ (pc[c] = "done" /\ err[c] = "none") =>
             /\ Len(requests[c]) = Ceil(p.end_row - p.start_row, batch_size)
             /\ requests[c] # << >> => offset[c] >= p.end_row

C10_Witness ==
  \E c \in Chunks :
    /\ pc[c] = "done" /\ err[c] = "none"
    /\ \E i \in 1..Len(requests[c]) :
         /\ i < Len(requests[c])
         /\ requests[c][i].returned < requests[c][i].limit

\* ------------------------------------------------------- C2, C3, C4, C6
NonEmptyStr(v) == v.t = "str" /\ v.n > 0

RECURSIVE NonEmptyStrCounts(_)
NonEmptyStrCounts(rows) ==
  IF rows = << >> THEN [total_tokens |-> 0, processed_items |-> 0]
  ELSE LET rest == NonEmptyStrCounts(Tail(rows))
       IN  IF NonEmptyStr(Head(rows))
           THEN [total_tokens |-> rest.total_tokens + Head(rows).n,
                 processed_items |-> rest.processed_items + 1]
           ELSE rest

\* C4 as stated: a call of process_chunk counts a row, and adds its tokens,
\* exactly when the row's value is a non-empty string.
C4_CountsOnlyNonEmptyStrings ==
  \A c \in Chunks : \A i \in 1..Len(batches[c]) :
    LET b == batches[c][i]
    IN  [total_tokens |-> b.tokens, processed_items |-> b.items] = NonEmptyStrCounts(b.rows)

ReadBy(r) ==
  { q \in UNION { {c} \X (1..Len(requests[c])) : c \in Chunks } :
      /\ requests[q[1]][q[2]].offset <= r
      /\ r < requests[q[1]][q[2]].offset + requests[q[1]][q[2]].limit }

\* C2 as stated: in a run without a failure every row index of [0, R) is
\* read by exactly one request of exactly one worker, totalItems is the
\* number of rows whose field is a non-empty string and totalTokens the sum
\* of their token counts.
C2_EveryRowCountedOnce ==
  (mainpc = "done" /\ \A c \in Chunks : err[c] = "none") =>
    /\ \A r \in 0..(TotalRows - 1) : Cardinality(ReadBy(r)) = 1
    /\ total_processed = NonEmptyStrCounts(Corpus).processed_items
    /\ main_total_tokens = NonEmptyStrCounts(Corpus).total_tokens

supported(listing) == SelectSeq(listing, LAMBDA f : source(f) # "skip")

\* C3 as stated: in a listing with at least one supported file the
\* unsupported files raise no error wherever they stand, and a worker counts
\* what it counts over the same directory without them.
C3_UnsupportedSkipped ==
  supported(files) # << >> =>
    \A c \in Chunks :
      /\ err[c] # "query"
      /\ (pc[c] = "done" /\ err[c] = "none") =>
           LET rows == view(all_data_query(supported(files)), disk, field)
               R == Len(rows)
           IN  Counts(c) = process_chunk(SubSeq(rows, start_row(c, workers, R) + 1,
                                                end_row(c, workers, R)))

EmptyCorpus ==
  \A i \in DOMAIN files : source(files[i]) = "skip" \/ disk[files[i]] = << >>

\* C6 as stated: over an empty corpus (no files, only unsupported files, or
\* supported files without rows) every worker returns (0, 0) without the
\* error path, and the report shows 0 tokens, 0 items and 0.00.
C6_EmptyCorpusNoError ==
  EmptyCorpus =>
    /\ \A c \in Chunks :
         pc[c] = "done" =>
           /\ err[c] = "none"
           /\ total_tokens[c] = 0
           /\ processed_items[c] = 0
    /\ mainpc = "done" =>
         /\ main_total_tokens = 0
         /\ total_processed = 0
         /\ average = 0

====
